---- MODULE Spec2Model ----
(***************************************************************************)
(* A model of the HNSW backend of vecstore (src/src/store/hnsw_backend.rs):*)
(* the identifier maps id_to_idx / idx_to_id, the index allocator next_idx,*)
(* the collection dimension and the points held by the hnsw_rs graph.      *)
(*                                                                         *)
(* The hnsw_rs graph is an external library.  It is modelled by the bag of *)
(* (vector, d_id) points handed to it and by an exact k-nearest search over*)
(* that bag; the library offers no removal, and the backend never replaces *)
(* its Hnsw value after `new`.                                             *)
(***************************************************************************)
EXTENDS Integers, Sequences, FiniteSets, Bags, TLC

\* ------------------------------------------------------------------ bounds
MaxPoints == 2      \* points handed to the graph during one run
MaxBatch == 2       \* items in one batch_insert / rebuild / optimize list
MaxK == 2           \* largest k of a search

\* ---------------------------------------------------------------- inputs
Ids == {"a", "b"}

\* Unit vectors, so that the cosine distance of two of them is the integer
\* 1 - dot product.  <<1>> has another length than the others.
Vectors == {<<1, 0>>, <<0, 1>>, <<1>>}

Dimensions == {2}
AnyDimensions == {0, 2}

Items == [id : Ids, vector : Vectors]

ItemLists == UNION {[1..n -> Items] : n \in 0..MaxBatch}

DefaultEfSearch == 200

EfValues == {1}

\* ----------------------------------------------------------------- state
VARIABLES
    hnsw,           \* bag of the points [v, d_id] the graph holds
    id_to_idx,      \* HashMap<Id, usize>
    idx_to_id,      \* HashMap<usize, Id>
    next_idx,       \* usize
    dimension,      \* usize
    vector_store,   \* the vector most recently inserted for each live identifier
    assigned,       \* the indices handed out since the last rebuild (this generation)
    distance,       \* the metric of the graph (hnsw_backend_new.rs: Distance)
    cli,            \* the store directory and the last run of the vecstore binary
    rtf,            \* a text given to RtfLoader::strip_rtf and what it returned
    evaluation,     \* an Evaluator, its metrics and its last report
    loader,         \* a file and the last load_with_options on it
    server,         \* vecstore-server: main, its tasks and the store lock
    last            \* the last call on the backend, its arguments and what it returned

vars == <<hnsw, id_to_idx, idx_to_id, next_idx, dimension, vector_store, assigned,
          distance, cli, rtf, evaluation, loader, server, last>>

\* The backend and the history of its calls.
backend_vars == <<hnsw, id_to_idx, idx_to_id, next_idx, dimension, vector_store,
                  assigned, distance, last>>

\* ------------------------------------------------------- HashMap helpers
EmptyMap == <<>>

Put(m, k, v) == [x \in (DOMAIN m) \cup {k} |-> IF x = k THEN v ELSE m[x]]

Del(m, k) == [x \in (DOMAIN m) \ {k} |-> m[x]]

Min(x, y) == IF x <= y THEN x ELSE y

\* The backend as one value, for the operators below.
Backend == [hnsw |-> hnsw, id_to_idx |-> id_to_idx, idx_to_id |-> idx_to_id,
            next_idx |-> next_idx, dimension |-> dimension]

new(dim) == [hnsw |-> EmptyBag, id_to_idx |-> EmptyMap, idx_to_id |-> EmptyMap,
             next_idx |-> 0, dimension |-> dim]

Point(vector, idx) == [v |-> vector, d_id |-> idx]

\* Hnsw::insert((vector, idx)): the graph holds one more point.
hnsw_insert(g, vector, idx) == g (+) SetToBag({Point(vector, idx)})

\* ---------------------------------------------------------------- insert
\* insert, had it left the old index of a re-inserted identifier in idx_to_id.
insert_keeps_old(self, id, vector) ==
    IF self.dimension > 0 /\ Len(vector) # self.dimension
    THEN [ok |-> FALSE, self |-> self]
    ELSE [ok |-> TRUE,
          self |-> [self EXCEPT
                      !.next_idx = self.next_idx + 1,
                      !.hnsw = hnsw_insert(@, vector, self.next_idx),
                      !.id_to_idx = Put(@, id, self.next_idx),
                      !.idx_to_id = Put(@, self.next_idx, id)]]

\* insert, had it retired the old index before it checked the length.
insert_retires_first(self, id, vector) ==
    LET retired == IF id \in DOMAIN self.id_to_idx
                   THEN Del(self.idx_to_id, self.id_to_idx[id])
                   ELSE self.idx_to_id
    IN  IF self.dimension > 0 /\ Len(vector) # self.dimension
        THEN [ok |-> FALSE, self |-> [self EXCEPT !.idx_to_id = retired]]
        ELSE [ok |-> TRUE,
              self |-> [self EXCEPT
                          !.next_idx = self.next_idx + 1,
                          !.hnsw = hnsw_insert(@, vector, self.next_idx),
                          !.id_to_idx = Put(@, id, self.next_idx),
                          !.idx_to_id = Put(retired, self.next_idx, id)]]

insert(self, id, vector) ==
    IF self.dimension > 0 /\ Len(vector) # self.dimension
    THEN [ok |-> FALSE, self |-> self]
    ELSE LET retired == IF id \in DOMAIN self.id_to_idx
                        THEN Del(self.idx_to_id, self.id_to_idx[id])
                        ELSE self.idx_to_id
             idx == self.next_idx
         IN  [ok |-> TRUE,
              self |-> [self EXCEPT
                          !.next_idx = idx + 1,
                          !.hnsw = hnsw_insert(@, vector, idx),
                          !.id_to_idx = Put(@, id, idx),
                          !.idx_to_id = Put(retired, idx, id)]]

\* ---------------------------------------------------------------- remove
\* remove, had it given the index back to the allocator.
remove_decrements(self, id) ==
    IF id \in DOMAIN self.id_to_idx
    THEN [ok |-> TRUE,
          self |-> [self EXCEPT
                      !.id_to_idx = Del(@, id),
                      !.idx_to_id = Del(@, self.id_to_idx[id]),
                      !.next_idx = @ - 1]]
    ELSE [ok |-> FALSE, self |-> self]

\* remove, had it treated an unknown identifier as a success.
remove_ignores_missing(self, id) ==
    IF id \in DOMAIN self.id_to_idx
    THEN [ok |-> TRUE,
          self |-> [self EXCEPT
                      !.id_to_idx = Del(@, id),
                      !.idx_to_id = Del(@, self.id_to_idx[id])]]
    ELSE [ok |-> TRUE, self |-> self]

\* remove, had it taken the point of the identifier out of the graph.
remove_drops_point(self, id) ==
    IF id \in DOMAIN self.id_to_idx
    THEN [ok |-> TRUE,
          self |-> [self EXCEPT
                      !.id_to_idx = Del(@, id),
                      !.idx_to_id = Del(@, self.id_to_idx[id]),
                      !.hnsw = [p \in {q \in DOMAIN @ :
                                          q.d_id # self.id_to_idx[id]} |-> @[p]]]]
    ELSE [ok |-> FALSE, self |-> self]

remove(self, id) ==
    IF id \in DOMAIN self.id_to_idx
    THEN [ok |-> TRUE,
          self |-> [self EXCEPT
                      !.id_to_idx = Del(@, id),
                      !.idx_to_id = Del(@, self.id_to_idx[id])]]
    ELSE [ok |-> FALSE, self |-> self]

\* ---------------------------------------------------------- batch_insert
\* The preparation loop: for every item, retire the index that id_to_idx
\* holds for its identifier (id_to_idx itself is not written in this loop),
\* allocate the next index and remember (id, vector, idx).
RECURSIVE batch_prepare(_, _, _)
batch_prepare(self, items, n) ==
    IF n = 0
    THEN [idx_to_id |-> self.idx_to_id, next_idx |-> self.next_idx,
          data_with_idx |-> <<>>]
    ELSE LET p == batch_prepare(self, items, n - 1)
             id == items[n].id
         IN  [idx_to_id |-> IF id \in DOMAIN self.id_to_idx
                            THEN Del(p.idx_to_id, self.id_to_idx[id])
                            ELSE p.idx_to_id,
              next_idx |-> p.next_idx + 1,
              data_with_idx |-> Append(p.data_with_idx,
                                       [id |-> id, vector |-> items[n].vector,
                                        idx |-> p.next_idx])]

\* Hnsw::parallel_insert: every point of the list is in the graph afterwards.
RECURSIVE hnsw_parallel_insert(_, _, _)
hnsw_parallel_insert(g, data, n) ==
    IF n = 0 THEN g
    ELSE hnsw_insert(hnsw_parallel_insert(g, data, n - 1), data[n].vector, data[n].idx)

\* The mapping loop: both maps are written for every prepared item, in order.
RECURSIVE batch_update_mappings(_, _, _)
batch_update_mappings(maps, data, n) ==
    IF n = 0 THEN maps
    ELSE LET m == batch_update_mappings(maps, data, n - 1)
         IN  [id_to_idx |-> Put(m.id_to_idx, data[n].id, data[n].idx),
              idx_to_id |-> Put(m.idx_to_id, data[n].idx, data[n].id)]

\* What batch_insert does to a list that passed the validation.
batch_apply(self, items) ==
    LET p == batch_prepare(self, items, Len(items))
        d == p.data_with_idx
        m == batch_update_mappings(
                 [id_to_idx |-> self.id_to_idx, idx_to_id |-> p.idx_to_id],
                 d, Len(d))
    IN  [ok |-> TRUE,
         self |-> [self EXCEPT
                     !.next_idx = p.next_idx,
                     !.hnsw = hnsw_parallel_insert(@, d, Len(d)),
                     !.id_to_idx = m.id_to_idx,
                     !.idx_to_id = m.idx_to_id]]

\* batch_insert, had it checked each length inside the preparation loop: the
\* items before the first wrong one are prepared when the error is returned.
batch_insert_lazy(self, items) ==
    LET bad == {i \in 1..Len(items) :
                  self.dimension > 0 /\ Len(items[i].vector) # self.dimension}
        first == CHOOSE i \in bad : \A j \in bad : i <= j
        p == batch_prepare(self, items, first - 1)
    IN  IF items = <<>> THEN [ok |-> TRUE, self |-> self]
        ELSE IF bad # {}
        THEN [ok |-> FALSE,
              self |-> [self EXCEPT !.next_idx = p.next_idx,
                                    !.idx_to_id = p.idx_to_id]]
        ELSE batch_apply(self, items)

batch_insert(self, items) ==
    IF items = <<>>
    THEN [ok |-> TRUE, self |-> self]
    ELSE IF \E i \in 1..Len(items) :
                self.dimension > 0 /\ Len(items[i].vector) # self.dimension
    THEN [ok |-> FALSE, self |-> self]
    ELSE batch_apply(self, items)

\* -------------------------------------------------- rebuild_from_vectors
\* The loop `for (id, vec) in vectors { self.insert(id.clone(), vec)?; }`:
\* the first insert that fails ends the call with what was done so far.
RECURSIVE rebuild_loop(_, _, _)
rebuild_loop(self, vectors, i) ==
    IF i > Len(vectors)
    THEN [ok |-> TRUE, self |-> self]
    ELSE LET r == insert(self, vectors[i].id, vectors[i].vector)
         IN  IF r.ok THEN rebuild_loop(r.self, vectors, i + 1)
             ELSE [ok |-> FALSE, self |-> r.self]

\* rebuild_from_vectors, had it reset the counter and kept the maps.
rebuild_keeps_maps(self, vectors) ==
    rebuild_loop([self EXCEPT !.next_idx = 0], vectors, 1)

\* The maps and the counter are cleared; self.hnsw is not assigned.
rebuild_from_vectors(self, vectors) ==
    rebuild_loop([self EXCEPT !.id_to_idx = EmptyMap, !.idx_to_id = EmptyMap,
                              !.next_idx = 0],
                 vectors, 1)

\* -------------------------------------------------------------- optimize
saturating_sub(x, y) == IF x >= y THEN x - y ELSE 0

optimize(self, vectors) ==
    LET old_size == Cardinality(DOMAIN self.idx_to_id)
        r == rebuild_from_vectors(self, vectors)
        new_size == Cardinality(DOMAIN r.self.idx_to_id)
    IN  [ok |-> r.ok, self |-> r.self,
         ret |-> IF r.ok THEN saturating_sub(old_size, new_size) ELSE 0]

\* --------------------------------------------------------------- restore
\* restore: Self::new(dimension), then the three saved values are installed.
restore(dim, saved_id_to_idx, saved_idx_to_id, saved_next_idx) ==
    [new(dim) EXCEPT
        !.id_to_idx = saved_id_to_idx,
        !.idx_to_id = saved_idx_to_id,
        !.next_idx = saved_next_idx]

\* ---------------------------------------------------------------- search
RECURSIVE Dot(_, _, _)
Dot(va, vb, n) == IF n = 0 THEN 0 ELSE Dot(va, vb, n - 1) + va[n] * vb[n]

\* DistCosine of hnsw_rs on two unit vectors of one length: 1 - cosine.
DistCosine(va, vb) == 1 - Dot(va, vb, Len(va))

\* DistDot of hnsw_rs on two unit vectors of one length: 1 - dot product.
DistDot(va, vb) == 1 - Dot(va, vb, Len(va))

RECURSIVE SquaredDiff(_, _, _)
SquaredDiff(va, vb, n) ==
    IF n = 0 THEN 0
    ELSE SquaredDiff(va, vb, n - 1) + (va[n] - vb[n]) * (va[n] - vb[n])

\* DistL2 of hnsw_rs, kept as the sum of the squared differences: it orders
\* the points as the distance does and stays in the integers.
DistL2(va, vb) == SquaredDiff(va, vb, Len(va))

\* The distance of the graph of a metric.
Dist(metric, va, vb) ==
    CASE metric = "Cosine" -> DistCosine(va, vb)
      [] metric = "Euclidean" -> DistL2(va, vb)
      [] metric = "DotProduct" -> DistDot(va, vb)

\* One element per point of the bag, copies told apart.
Copies(g) == UNION {{<<p, c>> : c \in 1..g[p]} : p \in DOMAIN g}

\* Hnsw::search(query, k, ef_search): the lists an exact search may return,
\* the min(k, points held) nearest points in non-decreasing distance; the
\* order among equally distant points is the library's.
hnsw_search_with(metric, g, query, k, ef_search) ==
    LET pts == Copies(g)
        n == Min(k, Cardinality(pts))
        d(pc) == Dist(metric, query, pc[1].v)
        nearest == {s \in [1..n -> pts] :
                      /\ \A i, j \in 1..n : i < j =>
                            /\ s[i] # s[j]
                            /\ d(s[i]) <= d(s[j])
                      /\ \A pc \in pts \ {s[i] : i \in 1..n} :
                            \A i \in 1..n : d(s[i]) <= d(pc)}
    IN  {[i \in 1..n |-> [d_id |-> s[i][1].d_id, distance |-> d(s[i])]] :
            s \in nearest}

\* The search of the Hnsw<f32, DistCosine> of hnsw_backend.rs.
hnsw_search(g, query, k, ef_search) ==
    hnsw_search_with("Cosine", g, query, k, ef_search)

\* The loop over the neighbours: a neighbour whose d_id is a key of
\* idx_to_id yields (id, 1 - distance), any other is dropped.
RECURSIVE search_collect(_, _, _)
search_collect(self, results, n) ==
    IF n = 0 THEN <<>>
    ELSE LET rest == search_collect(self, results, n - 1)
             idx == results[n].d_id
         IN  IF idx \in DOMAIN self.idx_to_id
             THEN Append(rest, [id |-> self.idx_to_id[idx],
                                score |-> 1 - results[n].distance])
             ELSE rest

\* The outcomes of search_with_ef (one per list the graph may return).
search_with_ef(self, query, k, ef_search) ==
    IF self.dimension > 0 /\ Len(query) # self.dimension
    THEN {[ok |-> FALSE, result |-> <<>>, searched |-> FALSE, neighbours |-> <<>>]}
    ELSE {[ok |-> TRUE, result |-> search_collect(self, results, Len(results)),
           searched |-> TRUE, neighbours |-> results] :
            results \in hnsw_search(self.hnsw, query, k, ef_search)}

search(self, query, k) == search_with_ef(self, query, k, DefaultEfSearch)

\* ------------------------------------------- search of hnsw_backend_new.rs
Metrics == {"Cosine", "Euclidean", "DotProduct"}

\* The ef_search that search of hnsw_backend_new.rs passes to the graph.
NewEfSearch == 30

\* A score that need not be an integer: num / den.
Ratio(num, den) == [num |-> num, den |-> den]

\* The match on the HnswInstance: the search of the graph of the metric.
instance_search(self, vector, k, ef_search) ==
    CASE self.distance = "Cosine" ->
            hnsw_search_with("Cosine", self.hnsw, vector, k, ef_search)
      [] self.distance = "Euclidean" ->
            hnsw_search_with("Euclidean", self.hnsw, vector, k, ef_search)
      [] self.distance = "DotProduct" ->
            hnsw_search_with("DotProduct", self.hnsw, vector, k, ef_search)

\* The score of a neighbour: its distance as it is for Cosine and
\* DotProduct, 1 / (1 + distance) for Euclidean.
new_score(self, neighbor) ==
    IF self.distance \in {"Cosine", "DotProduct"}
    THEN Ratio(neighbor.distance, 1)
    ELSE Ratio(1, 1 + neighbor.distance)

\* The filter_map over the neighbours.
RECURSIVE new_collect(_, _, _)
new_collect(self, neighbors, n) ==
    IF n = 0 THEN <<>>
    ELSE LET rest == new_collect(self, neighbors, n - 1)
             idx == neighbors[n].d_id
         IN  IF idx \in DOMAIN self.idx_to_id
             THEN Append(rest, [id |-> self.idx_to_id[idx],
                                score |-> new_score(self, neighbors[n])])
             ELSE rest

\* The outcomes of search of hnsw_backend_new.rs: it returns a list, never
\* an error, and checks no length.
new_search(self, vector, k) ==
    IF DOMAIN self.id_to_idx = {}
    THEN {[ok |-> TRUE, result |-> <<>>, searched |-> FALSE, neighbours |-> <<>>]}
    ELSE {[ok |-> TRUE, result |-> new_collect(self, neighbors, Len(neighbors)),
           searched |-> TRUE, neighbours |-> neighbors] :
            neighbors \in instance_search(self, vector, k, NewEfSearch)}

\* ------------------------------------------------------------ the record
\* of a call: one shape for every operation, unused fields at their default.
\* wrong is the position of the first item of the list a call was given whose
\* vector has another length than the dimension (0: none) and inserted the
\* items the call handed to the graph, in order.
\* twice tells that the call before was a successful call of the same
\* operation on the same identifier, searched that the call reached
\* Hnsw::search and neighbours what the graph returned to it.
Call(op) == [op |-> op, id |-> "", vector |-> <<>>, wrong |-> 0,
             inserted |-> <<>>, k |-> 0, ef_search |-> 0, ok |-> TRUE, ret |-> 0,
             result |-> <<>>, twice |-> FALSE, searched |-> FALSE,
             neighbours |-> <<>>]

WrongLength(vector) == Len(vector) # dimension

FirstWrong(items) ==
    LET w == {i \in 1..Len(items) : WrongLength(items[i].vector)}
    IN  IF w = {} THEN 0 ELSE CHOOSE i \in w : \A j \in w : i <= j

Live == DOMAIN id_to_idx

\* ---------------------------------------------- the vecstore binary
\* A store directory is given by the identifiers it holds and the metadata
\* tag of each.
CliIds == {"a", "b", "c"}

Tags == {"x", "y"}

Dirs == UNION {[held -> Tags] : held \in SUBSET CliIds}

\* An Option argument that was not given.
NoArg == ""

IdArgs == CliIds \cup {NoArg}

\* --filter strings: "x" and "y" are the JSON of the filter that matches the
\* tag, "{" is not the JSON of a FilterExpr.
FilterArgs == Tags \cup {"{", NoArg}

\* What the delete command prints.
DeletedVector == "Deleted vector"

DeletedMatching == "Deleted vectors matching filter"

MustSpecify == "Error: Must specify either --id or --filter"

\* VecStore::open: the store holds what the directory holds.
VecStore_open(dir) == dir

\* VecStore::delete: a missing identifier is reported to the caller.
VecStore_delete(store, id) ==
    IF id \in DOMAIN store
    THEN [ok |-> TRUE, store |-> Del(store, id)]
    ELSE [ok |-> FALSE, store |-> store]

\* VecStore::save: the directory holds what the store holds.
VecStore_save(store) == store

\* serde_json::from_str::<FilterExpr>.
parse_filter(filter_str) == filter_str \in Tags

\* The Commands::Delete arm of main: the directory it leaves, what it
\* printed and the error it ended with.
delete_command(dir, id, filter) ==
    LET store == VecStore_open(dir) IN
    IF id # NoArg
    THEN LET r == VecStore_delete(store, id) IN
         IF r.ok
         THEN [dir |-> VecStore_save(r.store), out |-> DeletedVector, err |-> ""]
         ELSE [dir |-> dir, out |-> "", err |-> "delete"]
    ELSE IF filter # NoArg
    THEN IF parse_filter(filter)
         THEN [dir |-> dir, out |-> DeletedMatching, err |-> ""]
         ELSE [dir |-> dir, out |-> "", err |-> "from_str"]
    ELSE [dir |-> dir, out |-> "", err |-> MustSpecify]

\* ------------------------------------------------- RtfLoader::strip_rtf
\* The characters of a text: the backslash, the braces, the space that
\* ends a control word and a letter.
RtfChars == {"\\", "{", "}", " ", "h"}

MaxRtf == 3

RtfTexts == UNION {[1..n -> RtfChars] : n \in 0..MaxRtf}

\* in_group is an integer whose type is left to inference: saturating_sub
\* stops at 0 when the type is unsigned and at the minimum when it is signed.
GroupFloors == {0, -2147483647 - 1}

saturating_sub_from(floor, x, y) == IF x - y < floor THEN floor ELSE x - y

\* One turn of the loop over the characters.
strip_char(st, ch, floor) ==
    IF ch = "\\" THEN [st EXCEPT !.in_control = TRUE]
    ELSE IF ch = "{" THEN [st EXCEPT !.in_group = @ + 1]
    ELSE IF ch = "}"
    THEN [st EXCEPT !.in_group = saturating_sub_from(floor, @, 1)]
    ELSE IF ch = " " /\ st.in_control THEN [st EXCEPT !.in_control = FALSE]
    ELSE IF ~st.in_control /\ st.in_group = 0
    THEN [st EXCEPT !.result = Append(@, ch)]
    ELSE st

RECURSIVE strip_loop(_, _, _)
strip_loop(rtf_content, n, floor) ==
    IF n = 0
    THEN [result |-> <<>>, in_control |-> FALSE, in_group |-> 0]
    ELSE strip_char(strip_loop(rtf_content, n - 1, floor), rtf_content[n], floor)

strip_rtf(rtf_content, floor) ==
    strip_loop(rtf_content, Len(rtf_content), floor).result

NoRtf == [input |-> <<>>, floor |-> 0, output |-> <<>>, done |-> FALSE]

\* ------------------------------------------------------------ Evaluator
MaxMetrics == 2

MetricNames == {"context_relevance", "answer_correctness"}

\* A metric, by its name and by what its evaluate returns on the input:
\* an error, or a result with a score.
MetricKinds == [name : MetricNames, score : {0, 1}, err : BOOLEAN]

EmptyReport == [overall_score |-> Ratio(0, 1), metric_scores |-> EmptyMap,
                results |-> <<>>]

\* The loop of evaluate over the first n metrics: the results, the scores
\* by name, the sum and the count, or the error of the first metric that
\* fails.
RECURSIVE evaluate_loop(_, _)
evaluate_loop(metrics, n) ==
    IF n = 0
    THEN [ok |-> TRUE, results |-> <<>>, metric_scores |-> EmptyMap,
          total_score |-> 0, count |-> 0]
    ELSE LET acc == evaluate_loop(metrics, n - 1)
             metric == metrics[n]
         IN  IF ~acc.ok \/ metric.err
             THEN [acc EXCEPT !.ok = FALSE]
             ELSE [ok |-> TRUE,
                   results |-> Append(acc.results,
                                      [metric_name |-> metric.name,
                                       score |-> metric.score]),
                   metric_scores |-> Put(acc.metric_scores, metric.name,
                                         metric.score),
                   total_score |-> acc.total_score + metric.score,
                   count |-> acc.count + 1]

\* Evaluator::evaluate: the report, or the error.
evaluate(self) ==
    LET acc == evaluate_loop(self.metrics, Len(self.metrics)) IN
    IF ~acc.ok THEN [ok |-> FALSE, report |-> EmptyReport]
    ELSE [ok |-> TRUE,
          report |-> [overall_score |->
                         IF acc.count > 0
                         THEN Ratio(acc.total_score, acc.count)
                         ELSE Ratio(0, 1),
                      metric_scores |-> acc.metric_scores,
                      results |-> acc.results]]

metric_count(self) == Len(self.metrics)

\* Evaluator::new(), no evaluate yet.
NoEvaluator == [metrics |-> <<>>, evaluated |-> FALSE, ok |-> TRUE,
                report |-> EmptyReport]

\* --------------------------------------------------- load_with_options
MaxFileSize == 6

\* What the path of a load names: nothing, or a file of some size.
Paths == {[exists |-> FALSE, size |-> 0]} \cup
         {[exists |-> TRUE, size |-> n] : n \in 0..MaxFileSize}

\* options.max_size: None, or Some(value).
MaxSizes == {[some |-> FALSE, value |-> 0]} \cup
            {[some |-> TRUE, value |-> m] : m \in 0..MaxFileSize}

Loaded(outcome, read) == [outcome |-> outcome, read |-> read]

\* TextLoader::load_with_encoding: fs::read of the path.
text_load_with_encoding(path) ==
    IF path.exists THEN Loaded("Ok", TRUE) ELSE Loaded("Io", FALSE)

\* TextLoader::load_with_options, had it compared with >=.
text_load_with_options_geq(path, max_size) ==
    IF max_size.some /\ ~path.exists THEN Loaded("Io", FALSE)
    ELSE IF max_size.some /\ path.size >= max_size.value
    THEN Loaded("FileTooLarge", FALSE)
    ELSE text_load_with_encoding(path)

\* TextLoader::load_with_options: fs::metadata and the comparison when
\* max_size is set, then the read.
text_load_with_options(path, max_size) ==
    IF max_size.some /\ ~path.exists THEN Loaded("Io", FALSE)
    ELSE IF max_size.some /\ path.size > max_size.value
    THEN Loaded("FileTooLarge", FALSE)
    ELSE text_load_with_encoding(path)

\* CodeLoader::load: the checks of the path, then fs::read_to_string.
code_load(path) ==
    IF ~path.exists THEN Loaded("InvalidPath", FALSE) ELSE Loaded("Ok", TRUE)

\* CodeLoader::load_with_options.
code_load_with_options(path, max_size) ==
    IF max_size.some /\ ~path.exists THEN Loaded("Io", FALSE)
    ELSE IF max_size.some /\ path.size > max_size.value
    THEN Loaded("FileTooLarge", FALSE)
    ELSE code_load(path)

\* No load yet.
NoLoad == [path |-> [exists |-> FALSE, size |-> 0], name |-> "",
           max_size |-> [some |-> FALSE, value |-> 0], outcome |-> "",
           read |-> FALSE]

\* ------------------------------------------------------ vecstore-server
FrontEnds == {"grpc", "http"}

\* The requests one front-end serves at a time.
MaxRequests == 2

Requests == FrontEnds \X (1..MaxRequests)

\* --no-grpc, --no-http, --namespaces.
ServerArgs == [no_grpc : BOOLEAN, no_http : BOOLEAN, namespaces : BOOLEAN]

\* The stores a process may hold: main creates store 1.
StoreRefs == {1, 2}

NoStore == 0

\* An RwLock that nobody holds.
FreeLock == [writers |-> {}, readers |-> {}]

\* VecStoreHttpServer::with_store, had the server opened a store of its own.
http_with_store_own(store) == store + 1

\* VecStoreGrpcServer::with_store(store.clone().unwrap()): the front-end
\* holds the Arc it is given.
grpc_with_store(store) == store

\* VecStoreHttpServer::with_store(store.clone().unwrap()).
http_with_store(store) == store

\* The handles main pushes, in order.
server_handles(args) ==
    (IF args.no_grpc THEN <<>> ELSE <<"grpc">>) \o
    (IF args.no_http THEN <<>> ELSE <<"http">>)

\* main up to its loop over the handles: the store (or the namespace
\* manager) is opened, the enabled servers are spawned; an error of open
\* and an empty list of handles end main with an error.
main_start(srv, open_ok) ==
    LET handles == server_handles(srv.args)
        store == IF srv.args.namespaces THEN NoStore ELSE 1
    IN  IF ~open_ok \/ handles = <<>>
        THEN [srv EXCEPT !.pc = "err"]
        ELSE [srv EXCEPT
                !.pc = "waiting",
                !.handles = handles,
                !.awaiting = 1,
                !.tasks = [fe \in FrontEnds |->
                             IF (fe = "grpc" /\ ~srv.args.no_grpc) \/
                                (fe = "http" /\ ~srv.args.no_http)
                             THEN "running" ELSE "none"],
                !.store_of = [fe \in FrontEnds |->
                                IF store = NoStore \/ @[fe] # NoStore THEN NoStore
                                ELSE IF fe = "grpc" /\ ~srv.args.no_grpc
                                THEN grpc_with_store(store)
                                ELSE IF fe = "http" /\ ~srv.args.no_http
                                THEN http_with_store(store)
                                ELSE NoStore]]

\* The guards of the requests in `gone` are dropped.
drop_guards(locks, gone) ==
    [i \in DOMAIN locks |-> [writers |-> locks[i].writers \ gone,
                             readers |-> locks[i].readers \ gone]]

\* A server task ends with `status`; the requests it served are dropped.
task_ends(srv, fe, status) ==
    [srv EXCEPT !.tasks[fe] = status,
                !.locks = drop_guards(@, {req \in Requests : req[1] = fe})]

\* One turn of `for handle in handles { handle.await??; }` when the awaited
\* task has ended: its error ends main, otherwise the next handle is
\* awaited; when main returns, the runtime drops the tasks that still run.
main_await(srv) ==
    LET status == srv.tasks[srv.handles[srv.awaiting]]
        returns == status = "err" \/ srv.awaiting = Len(srv.handles)
    IN  IF returns
        THEN [srv EXCEPT
                !.pc = IF status = "err" THEN "err" ELSE "ok",
                !.tasks = [fe \in FrontEnds |->
                             IF @[fe] = "running" THEN "dropped" ELSE @[fe]],
                !.locks = drop_guards(@, Requests)]
        ELSE [srv EXCEPT !.awaiting = @ + 1]

\* The process before main runs.
NoServer == [args |-> [no_grpc |-> FALSE, no_http |-> FALSE, namespaces |-> FALSE],
             pc |-> "start", handles |-> <<>>, awaiting |-> 0,
             tasks |-> [fe \in FrontEnds |-> "none"],
             store_of |-> [fe \in FrontEnds |-> NoStore],
             locks |-> [i \in StoreRefs |-> FreeLock]]

\* No run of the vecstore binary yet.
NoRun == [dir |-> EmptyMap, cmd |-> "", id |-> "", filter |-> "", out |-> "",
          err |-> ""]

\* The d_id of the points a call added to the graph.
Allocated(b) == {p.d_id : p \in DOMAIN (b.hnsw (-) hnsw)}

Room(n) == BagCardinality(hnsw) + n <= MaxPoints

Install(b) ==
    /\ hnsw' = b.hnsw
    /\ id_to_idx' = b.id_to_idx
    /\ idx_to_id' = b.idx_to_id
    /\ next_idx' = b.next_idx
    /\ dimension' = b.dimension

InitBackend(dims, metrics) ==
    /\ \E dim \in dims :
         /\ hnsw = new(dim).hnsw
         /\ id_to_idx = new(dim).id_to_idx
         /\ idx_to_id = new(dim).idx_to_id
         /\ next_idx = new(dim).next_idx
         /\ dimension = new(dim).dimension
    /\ vector_store = EmptyMap
    /\ assigned = {}
    /\ distance \in metrics
    /\ last = Call("new")

InitStore(dims, metrics, dirs) ==
    /\ InitBackend(dims, metrics)
    /\ cli \in {[NoRun EXCEPT !.dir = dir] : dir \in dirs}
    /\ rtf = NoRtf
    /\ evaluation = NoEvaluator
    /\ loader = NoLoad
    /\ server = NoServer

InitMetric(dims, metrics) == InitStore(dims, metrics, {EmptyMap})

\* hnsw_backend.rs holds an Hnsw<f32, DistCosine>.
InitWith(dims) == InitMetric(dims, {"Cosine"})

Init == InitWith(Dimensions)

\* hnsw_backend_new.rs: new(dimension, distance).
InitNew == InitMetric(Dimensions, Metrics)

\* The vecstore binary finds any store directory.
InitCli == InitStore(Dimensions, {"Cosine"}, Dirs)

Insert ==
    \E id \in Ids, vector \in Vectors :
        LET r == insert(Backend, id, vector) IN
        /\ Room(IF r.ok THEN 1 ELSE 0)
        /\ Install(r.self)
        /\ UNCHANGED <<distance, cli, rtf, evaluation, loader, server>>
        /\ vector_store' = IF r.ok THEN Put(vector_store, id, vector) ELSE vector_store
        /\ assigned' = assigned \cup Allocated(r.self)
        /\ last' = [Call("insert") EXCEPT
                      !.id = id, !.vector = vector, !.ok = r.ok,
                      !.twice = r.ok /\ last.op = "insert" /\ last.ok /\ last.id = id]

Remove ==
    \E id \in Ids :
        LET r == remove(Backend, id) IN
        /\ Install(r.self)
        /\ UNCHANGED <<distance, cli, rtf, evaluation, loader, server>>
        /\ vector_store' = IF r.ok THEN Del(vector_store, id) ELSE vector_store
        /\ assigned' = assigned \cup Allocated(r.self)
        /\ last' = [Call("remove") EXCEPT
                      !.id = id, !.ok = r.ok,
                      !.twice = last.op = "remove" /\ last.ok /\ last.id = id]

\* The vector store after the first n items of a list were accepted in order.
RECURSIVE Stored(_, _, _)
Stored(store, items, n) ==
    IF n = 0 THEN store
    ELSE Put(Stored(store, items, n - 1), items[n].id, items[n].vector)

BatchInsert ==
    \E items \in ItemLists :
        LET r == batch_insert(Backend, items) IN
        /\ Room(IF r.ok THEN Len(items) ELSE 0)
        /\ Install(r.self)
        /\ UNCHANGED <<distance, cli, rtf, evaluation, loader, server>>
        /\ vector_store' = IF r.ok THEN Stored(vector_store, items, Len(items))
                           ELSE vector_store
        /\ assigned' = assigned \cup Allocated(r.self)
        /\ last' = [Call("batch_insert") EXCEPT
                      !.wrong = FirstWrong(items), !.ok = r.ok,
                      !.inserted = IF r.ok THEN items ELSE <<>>]

\* A rebuild resets next_idx and then counts the accepted items.
RebuildFromVectors ==
    \E items \in ItemLists :
        LET r == rebuild_from_vectors(Backend, items) IN
        /\ Room(r.self.next_idx)
        /\ Install(r.self)
        /\ UNCHANGED <<distance, cli, rtf, evaluation, loader, server>>
        /\ vector_store' = Stored(EmptyMap, items, r.self.next_idx)
        /\ assigned' = Allocated(r.self)
        /\ last' = [Call("rebuild_from_vectors") EXCEPT
                      !.wrong = FirstWrong(items), !.ok = r.ok,
                      !.inserted = SubSeq(items, 1, r.self.next_idx)]

Optimize ==
    \E items \in ItemLists :
        LET r == optimize(Backend, items) IN
        /\ Room(r.self.next_idx)
        /\ Install(r.self)
        /\ UNCHANGED <<distance, cli, rtf, evaluation, loader, server>>
        /\ vector_store' = Stored(EmptyMap, items, r.self.next_idx)
        /\ assigned' = Allocated(r.self)
        /\ last' = [Call("optimize") EXCEPT
                      !.wrong = FirstWrong(items), !.ok = r.ok,
                      !.ret = r.ret,
                      !.inserted = SubSeq(items, 1, r.self.next_idx)]

Search ==
    \E query \in Vectors, k \in 0..MaxK :
        /\ \E r \in search(Backend, query, k) :
             last' = [Call("search") EXCEPT
                        !.vector = query, !.k = k, !.ef_search = DefaultEfSearch,
                        !.ok = r.ok, !.result = r.result,
                        !.searched = r.searched, !.neighbours = r.neighbours]
        /\ UNCHANGED <<hnsw, id_to_idx, idx_to_id, next_idx, dimension, vector_store, assigned,
                     distance, cli, rtf, evaluation, loader, server>>

SearchWithEf ==
    \E query \in Vectors, k \in 0..MaxK, ef_search \in EfValues :
        /\ \E r \in search_with_ef(Backend, query, k, ef_search) :
             last' = [Call("search_with_ef") EXCEPT
                        !.vector = query, !.k = k, !.ef_search = ef_search,
                        !.ok = r.ok, !.result = r.result,
                        !.searched = r.searched, !.neighbours = r.neighbours]
        /\ UNCHANGED <<hnsw, id_to_idx, idx_to_id, next_idx, dimension, vector_store, assigned,
                     distance, cli, rtf, evaluation, loader, server>>

\* The backend is saved and reopened: restore gets its mappings and next_idx.
\* The guard caps next_idx, which the inserts into the reopened backend raise
\* further.
Restore ==
    /\ next_idx <= MaxPoints
    /\ Install(restore(dimension, id_to_idx, idx_to_id, next_idx))
    /\ last' = Call("restore")
    /\ UNCHANGED <<vector_store, assigned, distance, cli, rtf, evaluation, loader, server>>

\* The backend of hnsw_backend_new.rs: the five fields and the metric.
BackendNew ==
    [hnsw |-> hnsw, id_to_idx |-> id_to_idx, idx_to_id |-> idx_to_id,
     next_idx |-> next_idx, dimension |-> dimension, distance |-> distance]

\* search of hnsw_backend_new.rs. A query of another length than the points
\* reaches the distance of the library only when some identifier is live;
\* what the library does with it is not modelled, so such a query is given
\* only to a backend whose id_to_idx is empty.
SearchNew ==
    \E vector \in Vectors, k \in 0..MaxK :
        /\ Len(vector) = dimension \/ Live = {}
        /\ \E r \in new_search(BackendNew, vector, k) :
             last' = [Call("search_new") EXCEPT
                        !.vector = vector, !.k = k, !.ef_search = NewEfSearch,
                        !.ok = r.ok, !.result = r.result,
                        !.searched = r.searched, !.neighbours = r.neighbours]
        /\ UNCHANGED <<hnsw, id_to_idx, idx_to_id, next_idx, dimension, vector_store, assigned,
                     distance, cli, rtf, evaluation, loader, server>>

\* Some text is given to strip_rtf.
InitRtf ==
    /\ InitBackend(Dimensions, {"Cosine"})
    /\ cli = NoRun
    /\ rtf \in {[NoRtf EXCEPT !.input = text, !.floor = floor] :
                  text \in RtfTexts, floor \in GroupFloors}
    /\ evaluation = NoEvaluator
    /\ loader = NoLoad
    /\ server = NoServer

StripRtf ==
    /\ ~rtf.done
    /\ rtf' = [rtf EXCEPT !.output = strip_rtf(rtf.input, rtf.floor), !.done = TRUE]
    /\ UNCHANGED <<backend_vars, cli, evaluation, loader, server>>

\* add_metric: the metric is pushed.
AddMetric ==
    \E metric \in MetricKinds :
        /\ metric_count(evaluation) < MaxMetrics
        /\ evaluation' = [NoEvaluator EXCEPT
                            !.metrics = Append(evaluation.metrics, metric)]
        /\ UNCHANGED <<backend_vars, cli, rtf, loader, server>>

Evaluate ==
    LET r == evaluate(evaluation) IN
    /\ evaluation' = [evaluation EXCEPT
                        !.evaluated = TRUE, !.ok = r.ok, !.report = r.report]
    /\ UNCHANGED <<backend_vars, cli, rtf, loader, server>>

\* The path of the loads names nothing or some file.
InitLoader ==
    /\ InitBackend(Dimensions, {"Cosine"})
    /\ cli = NoRun
    /\ rtf = NoRtf
    /\ evaluation = NoEvaluator
    /\ loader \in {[NoLoad EXCEPT !.path = path] : path \in Paths}
    /\ server = NoServer

TextLoadWithOptions ==
    \E max_size \in MaxSizes :
        LET r == text_load_with_options(loader.path, max_size) IN
        /\ loader' = [path |-> loader.path, name |-> "TextLoader",
                      max_size |-> max_size, outcome |-> r.outcome,
                      read |-> r.read]
        /\ UNCHANGED <<backend_vars, cli, rtf, evaluation, server>>

CodeLoadWithOptions ==
    \E max_size \in MaxSizes :
        LET r == code_load_with_options(loader.path, max_size) IN
        /\ loader' = [path |-> loader.path, name |-> "CodeLoader",
                      max_size |-> max_size, outcome |-> r.outcome,
                      read |-> r.read]
        /\ UNCHANGED <<backend_vars, cli, rtf, evaluation, server>>

\* vecstore-server is started with some arguments.
InitServer ==
    /\ InitBackend(Dimensions, {"Cosine"})
    /\ cli = NoRun
    /\ rtf = NoRtf
    /\ evaluation = NoEvaluator
    /\ loader = NoLoad
    /\ server \in {[NoServer EXCEPT !.args = args] : args \in ServerArgs}

server_others == <<backend_vars, cli, rtf, evaluation, loader>>

MainStart ==
    /\ server.pc = "start"
    /\ \E open_ok \in BOOLEAN : server' = main_start(server, open_ok)
    /\ UNCHANGED server_others

\* A server task returns an error: the listener cannot bind, serve fails.
TaskFails ==
    \E fe \in FrontEnds :
        /\ server.tasks[fe] = "running"
        /\ server' = task_ends(server, fe, "err")
        /\ UNCHANGED server_others

\* A server task returns Ok(()).
TaskStops ==
    \E fe \in FrontEnds :
        /\ server.tasks[fe] = "running"
        /\ server' = task_ends(server, fe, "ok")
        /\ UNCHANGED server_others

MainAwait ==
    /\ server.pc = "waiting"
    /\ server.tasks[server.handles[server.awaiting]] \in {"ok", "err"}
    /\ server' = main_await(server)
    /\ UNCHANGED server_others

\* The lock of the store that the front-end of a request holds.
Holds(req) ==
    \E i \in StoreRefs : req \in server.locks[i].writers \cup server.locks[i].readers

Serving(req) ==
    /\ server.tasks[req[1]] = "running"
    /\ server.store_of[req[1]] # NoStore

\* A request takes shared access: store.read().await returns.
AcquireRead ==
    \E req \in Requests :
        LET i == server.store_of[req[1]] IN
        /\ Serving(req)
        /\ ~Holds(req)
        /\ server.locks[i].writers = {}
        /\ server' = [server EXCEPT !.locks[i].readers = @ \cup {req}]
        /\ UNCHANGED server_others

\* A request takes exclusive access: store.write().await returns.
AcquireWrite ==
    \E req \in Requests :
        LET i == server.store_of[req[1]] IN
        /\ Serving(req)
        /\ ~Holds(req)
        /\ server.locks[i] = FreeLock
        /\ server' = [server EXCEPT !.locks[i].writers = @ \cup {req}]
        /\ UNCHANGED server_others

\* A request drops its guard.
Release ==
    \E req \in Requests :
        /\ Holds(req)
        /\ server' = [server EXCEPT !.locks = drop_guards(@, {req})]
        /\ UNCHANGED server_others

\* vecstore delete --dir ... [--id ...] [--filter ...]
CmdDelete ==
    \E id \in IdArgs, filter \in FilterArgs :
        LET r == delete_command(cli.dir, id, filter) IN
        /\ cli' = [dir |-> r.dir, cmd |-> "delete", id |-> id, filter |-> filter,
                   out |-> r.out, err |-> r.err]
        /\ UNCHANGED <<backend_vars, rtf, evaluation, loader, server>>

Next ==
    \/ Insert
    \/ BatchInsert
    \/ Remove
    \/ RebuildFromVectors
    \/ Optimize
    \/ Search
    \/ SearchWithEf

Spec == Init /\ [][Next]_vars

\* The five operations that take &mut self.
NextWrites ==
    \/ Insert
    \/ BatchInsert
    \/ Remove
    \/ RebuildFromVectors
    \/ Optimize

SpecWrites == Init /\ [][NextWrites]_vars

\* A backend reached by insert and remove alone, and searched.
NextInsertRemove ==
    \/ Insert
    \/ Remove
    \/ Search

SpecInsertRemove == Init /\ [][NextInsertRemove]_vars

\* The operations without batch_insert: every index is handed out by insert.
NextNoBatch ==
    \/ Insert
    \/ Remove
    \/ RebuildFromVectors
    \/ Optimize
    \/ Search
    \/ SearchWithEf

SpecNoBatch == Init /\ [][NextNoBatch]_vars

\* The five writing operations on a backend created with any dimension, 0
\* (not yet known) included.
InitAnyDimension == InitWith(AnyDimensions)

SpecAnyDimension == InitAnyDimension /\ [][NextWrites]_vars

\* hnsw_backend_new.rs: insert and remove are the code of hnsw_backend.rs.
NextNew ==
    \/ Insert
    \/ Remove
    \/ SearchNew

SpecNew == InitNew /\ [][NextNew]_vars

NextRestore ==
    \/ Insert
    \/ Remove
    \/ Search
    \/ Restore

SpecRestore == Init /\ [][NextRestore]_vars

NextRtf == StripRtf

SpecRtf == InitRtf /\ [][NextRtf]_vars

NextEval ==
    \/ AddMetric
    \/ Evaluate

SpecEval == Init /\ [][NextEval]_vars

NextLoader ==
    \/ TextLoadWithOptions
    \/ CodeLoadWithOptions

SpecLoader == InitLoader /\ [][NextLoader]_vars

NextServer ==
    \/ MainStart
    \/ TaskFails
    \/ TaskStops
    \/ MainAwait
    \/ AcquireRead
    \/ AcquireWrite
    \/ Release

SpecServer == InitServer /\ [][NextServer]_vars

\* main runs whenever it can; a server task need never end.
SpecServerLive ==
    /\ SpecServer
    /\ WF_vars(MainStart)
    /\ WF_vars(MainAwait)

NextCli == CmdDelete

SpecCli == InitCli /\ [][NextCli]_vars

\* ================================================================ claims
IsSearch == last.op \in {"search", "search_with_ef"}

IsRebuild == last.op \in {"rebuild_from_vectors", "optimize"}

\* C1: id_to_idx and idx_to_id are inverses of one another: every live
\* identifier maps to one index, that index maps back to the identifier, and
\* the two maps have the same number of entries.
C1_MapsAreInverse ==
    /\ \A id \in DOMAIN id_to_idx :
          /\ id_to_idx[id] \in DOMAIN idx_to_id
          /\ idx_to_id[id_to_idx[id]] = id
    /\ \A idx \in DOMAIN idx_to_id :
          /\ idx_to_id[idx] \in DOMAIN id_to_idx
          /\ id_to_idx[idx_to_id[idx]] = idx
    /\ Cardinality(DOMAIN id_to_idx) = Cardinality(DOMAIN idx_to_id)

\* C2: every (identifier, score) pair a search returns belongs to a live
\* identifier and is scored from the vector most recently inserted for it.
C2_SearchLiveAndLatest ==
    (IsSearch /\ last.ok) =>
        \A i \in 1..Len(last.result) :
            /\ last.result[i].id \in Live
            /\ last.result[i].score =
                   1 - DistCosine(last.vector, vector_store[last.result[i].id])

\* The graph that holds one point per item of a list, the i-th item under
\* index i - 1, and nothing else.
RECURSIVE GraphOf(_, _)
GraphOf(items, n) ==
    IF n = 0 THEN EmptyBag
    ELSE GraphOf(items, n - 1) (+) SetToBag({Point(items[n].vector, n - 1)})

\* C3: after rebuild_from_vectors(vectors) returned Ok the graph holds one
\* point per item of vectors and no point inserted before the call.
C3_RebuildDiscardsGraph ==
    (IsRebuild /\ last.ok) => hnsw = GraphOf(last.inserted, Len(last.inserted))

\* C4: a search with no filter returns min(k, number of live identifiers)
\* results, all of them live, in every state reached by inserts and removes.
C4_SearchSize ==
    (last.op = "search" /\ last.ok) =>
        /\ Len(last.result) = Min(last.k, Cardinality(Live))
        /\ \A i \in 1..Len(last.result) : last.result[i].id \in Live

\* The points a step added to the graph.
NewPoints == hnsw' (-) hnsw

\* C5: inserting one identifier twice in a row leaves one live entry for it:
\* id_to_idx holds the index the second insert allocated, idx_to_id holds
\* that index and no longer the index of the first insert, and the number of
\* live identifiers grew by one over the two inserts when the identifier was
\* new (every insert adds one when the identifier was not live, none when it was).
C5_InsertTwice ==
    [][(last'.op = "insert" /\ last'.ok) =>
          LET id == last'.id IN
          /\ Cardinality(DOMAIN id_to_idx') =
                 Cardinality(DOMAIN id_to_idx) + (IF id \in DOMAIN id_to_idx THEN 0 ELSE 1)
          /\ last'.twice =>
                /\ id \in DOMAIN id_to_idx
                /\ {id_to_idx'[id]} = {p.d_id : p \in DOMAIN NewPoints}
                /\ id_to_idx'[id] # id_to_idx[id]
                /\ id_to_idx'[id] \in DOMAIN idx_to_id'
                /\ idx_to_id'[id_to_idx'[id]] = id
                /\ id_to_idx[id] \notin DOMAIN idx_to_id'
                /\ Cardinality(DOMAIN id_to_idx') = Cardinality(DOMAIN id_to_idx)
       ]_vars

C5_Witness == last.op = "insert" /\ last.twice /\ Cardinality(Live) = 1

\* C6: after batch_insert(items) the maps and next_idx are those that insert,
\* called on each item in the same order, leaves (rebuild_loop is that
\* sequence of inserts, started here from the state before the call).
C6_BatchIsSequentialInsert ==
    [][(last'.op = "batch_insert" /\ last'.ok) =>
          LET seq == rebuild_loop(Backend, last'.inserted, 1).self IN
          /\ id_to_idx' = seq.id_to_idx
          /\ idx_to_id' = seq.idx_to_id
          /\ next_idx' = seq.next_idx
       ]_vars

C9_OneLength ==
    /\ \A id1, id2 \in DOMAIN vector_store :
          Len(vector_store[id1]) = Len(vector_store[id2])
    /\ dimension > 0 =>
          \A id \in DOMAIN vector_store : Len(vector_store[id]) = dimension

\* C10: between two rebuilds an index is not reused: every index that insert
\* or batch_insert hands out is greater than every index handed out earlier in
\* the generation, each point gets its own, and no step decrements next_idx.
C10_IndicesAppendOnly ==
    [][(last'.op \in {"insert", "batch_insert", "remove"}) =>
          /\ next_idx' >= next_idx
          /\ assigned \subseteq assigned'
          /\ \A i \in assigned' \ assigned : \A j \in assigned : i > j
          /\ Cardinality(assigned' \ assigned) = BagCardinality(NewPoints)
       ]_vars

C10_Witness ==
    /\ last.op \in {"insert", "batch_insert"}
    /\ last.ok
    /\ Cardinality(assigned) >= 2
    /\ Cardinality(DOMAIN idx_to_id) < Cardinality(assigned)

\* C11: a rebuild_from_vectors or optimize that returns an error leaves
\* id_to_idx, idx_to_id and next_idx as they were before the call.
C11_FailedRebuildKeepsMaps ==
    [][(last'.op \in {"rebuild_from_vectors", "optimize"} /\ ~last'.ok) =>
          UNCHANGED <<id_to_idx, idx_to_id, next_idx>>
       ]_vars

\* The list holds exactly the live (identifier, vector) pairs, each once.
ExactlyLive(items) ==
    /\ Len(items) = Cardinality(Live)
    /\ {items[i].id : i \in 1..Len(items)} = Live
    /\ \A i \in 1..Len(items) :
          /\ items[i].id \in DOMAIN vector_store
          /\ items[i].vector = vector_store[items[i].id]

\* C12: optimize with exactly the live pairs keeps the set of live
\* identifiers, and optimize once more with the same pairs yields the same
\* mappings, the same next_idx and the same graph points as the first call.
C12_OptimizeIdempotent ==
    [][(last'.op = "optimize" /\ last'.ok /\ ExactlyLive(last'.inserted)) =>
          /\ DOMAIN id_to_idx' = DOMAIN id_to_idx
          /\ LET again == optimize(Backend', last'.inserted) IN
                /\ again.ok
                /\ again.self.id_to_idx = id_to_idx'
                /\ again.self.idx_to_id = idx_to_id'
                /\ again.self.next_idx = next_idx'
                /\ again.self.hnsw = hnsw'
       ]_vars

\* C13: remove of an identifier that is not live reports not-found and
\* leaves id_to_idx, idx_to_id, next_idx and the graph unchanged; remove of a
\* live identifier succeeds, and the same remove right after it reports
\* not-found.
C13_RemoveNotLive ==
    [][(last'.op = "remove") =>
          /\ (last'.id \notin Live) =>
                /\ ~last'.ok
                /\ UNCHANGED <<id_to_idx, idx_to_id, next_idx, hnsw>>
          /\ (last'.id \in Live) => last'.ok
          /\ last'.twice => ~last'.ok
       ]_vars

C13_Witness ==
    /\ last.op = "remove"
    /\ last.twice
    /\ ~last.ok
    /\ hnsw # EmptyBag

\* The score the specification gives to a hit at distance d.
SpecScore(metric, d) ==
    IF metric = "Euclidean" THEN Ratio(1, 1 + d) ELSE Ratio(1 - d, 1)

\* The neighbours that become hits: those whose d_id has an identifier.
Kept(neighbours) ==
    SelectSeq(neighbours, LAMBDA nb : nb.d_id \in DOMAIN idx_to_id)

IsSearchNew == last.op = "search_new"

\* C14: every hit of a search carries the score of its graph distance d:
\* 1 - d under cosine and dot product, 1 / (1 + d) under Euclidean.
C14_ScoreOfDistance ==
    IsSearchNew =>
        LET kept == Kept(last.neighbours) IN
        /\ Len(last.result) = Len(kept)
        /\ \A i \in 1..Len(kept) :
              last.result[i].score = SpecScore(distance, kept[i].distance)

\* a >= b for two scores with positive denominators.
ScoreGeq(a, b) == a.num * b.den >= b.num * a.den

\* C15: the result of a search is in non-increasing score, and of two hits
\* with one score the one with the smaller index comes first.
C15_ScoreDescending ==
    IsSearchNew =>
        LET kept == Kept(last.neighbours) IN
        \A i, j \in 1..Len(last.result) :
            i < j =>
                /\ ScoreGeq(last.result[i].score, last.result[j].score)
                /\ ScoreGeq(last.result[j].score, last.result[i].score) =>
                      kept[i].d_id <= kept[j].d_id

\* C16: a search with a query of another length than the dimension fails
\* with an error.
C16_SearchWrongLength ==
    (IsSearchNew /\ dimension > 0 /\ Len(last.vector) # dimension) => ~last.ok

\* C17: a search with a query of the right length on a backend with no live
\* identifier returns an empty list and no error.
C17_SearchNothingLive ==
    (IsSearch /\ Live = {} /\ Len(last.vector) = dimension) =>
        /\ last.ok
        /\ last.result = <<>>

\* C18: a search with k = 0 returns an empty result and does not call the
\* search of the graph.
C18_SearchZero ==
    (IsSearch /\ last.k = 0 /\ last.ok) =>
        /\ last.result = <<>>
        /\ ~last.searched

\* The lists of identifiers that search may return on a backend.
SearchIds(b, query, k) ==
    {[i \in 1..Len(r.result) |-> r.result[i].id] : r \in search(b, query, k)}

\* C19: the backend that restore builds from the mappings and next_idx of a
\* backend has the live identifiers of that backend, and search returns the
\* same identifiers on both for every query.
C19_RestoreIsEqual ==
    [][(last'.op = "restore") =>
          /\ DOMAIN id_to_idx' = DOMAIN id_to_idx
          /\ \A query \in Vectors, k \in 0..MaxK :
                SearchIds(Backend', query, k) = SearchIds(Backend, query, k)
       ]_vars

\* C20: when delete with --filter and no --id has printed that the vectors
\* were deleted, the store directory holds no vector that matches the filter.
C20_DeleteByFilter ==
    (/\ cli.cmd = "delete"
     /\ cli.id = NoArg
     /\ cli.filter \in Tags
     /\ cli.out = DeletedMatching) =>
        \A id \in DOMAIN cli.dir : cli.dir[id] # cli.filter

\* C24: a successful remove takes the two map entries of the identifier
\* away and changes nothing else: the graph, next_idx and the mappings of
\* every other identifier stay as they were.
C24_RemoveFrame ==
    [][(last'.op = "remove" /\ last'.ok) =>
          /\ hnsw' = hnsw
          /\ next_idx' = next_idx
          /\ last'.id \in DOMAIN id_to_idx
          /\ id_to_idx' = Del(id_to_idx, last'.id)
          /\ idx_to_id' = Del(idx_to_id, id_to_idx[last'.id])
       ]_vars

C24_Witness ==
    /\ last.op = "remove"
    /\ last.ok
    /\ Live # {}
    /\ BagCardinality(hnsw) > Cardinality(DOMAIN idx_to_id)

\* The points of the graph whose index has no identifier.
GhostPoints(g, map) == {pc \in Copies(g) : pc[1].d_id \notin DOMAIN map}

\* C25: optimize called with the live pairs returns the number of ghost
\* points that the graph held before the call, and the graph holds none of
\* them after it.
C25_OptimizeCountsGhosts ==
    [][(last'.op = "optimize" /\ last'.ok /\ ExactlyLive(last'.inserted)) =>
          /\ last'.ret = Cardinality(GhostPoints(hnsw, idx_to_id))
          /\ GhostPoints(hnsw', idx_to_id') = {}
       ]_vars

\* The identifiers of a list are pairwise distinct.
DistinctIds(items) ==
    \A i, j \in 1..Len(items) : i # j => items[i].id # items[j].id

\* C26: after a rebuild_from_vectors or optimize that accepted a list of n
\* items with pairwise distinct identifiers, next_idx is n, the live indices
\* are 0..n-1 and the i-th item (counted from 0) holds index i.
C26_AllocatorReset ==
    (IsRebuild /\ last.ok /\ DistinctIds(last.inserted)) =>
        LET n == Len(last.inserted) IN
        /\ next_idx = n
        /\ DOMAIN idx_to_id = 0..(n - 1)
        /\ DOMAIN id_to_idx = {last.inserted[i].id : i \in 1..n}
        /\ \A i \in 1..n :
              /\ id_to_idx[last.inserted[i].id] = i - 1
              /\ idx_to_id[i - 1] = last.inserted[i].id

C26_Witness ==
    /\ IsRebuild
    /\ last.ok
    /\ DistinctIds(last.inserted)
    /\ Len(last.inserted) >= 1
    /\ BagCardinality(hnsw) > Len(last.inserted)

\* C27: a search without an explicit ef_search hands 200 to the graph, and
\* the ef_search handed to the graph is never smaller than k.
C27_DefaultEfSearch ==
    /\ (last.op \in {"search", "search_new"} /\ last.searched) =>
          last.ef_search = DefaultEfSearch
    /\ ((IsSearch \/ IsSearchNew) /\ last.searched) => last.ef_search >= last.k

\* C28: no identifier occurs twice in the result of a search.
C28_NoDuplicateIds ==
    (IsSearch /\ last.ok) =>
        \A i, j \in 1..Len(last.result) :
            i # j => last.result[i].id # last.result[j].id

\* The plain text of a document: the characters that are neither a brace
\* nor part of a control word (the backslash, the word and the space that
\* ends it), in order, whatever group they sit in.
RECURSIVE PlainText(_, _)
PlainText(text, n) ==
    IF n = 0 THEN [result |-> <<>>, in_control |-> FALSE]
    ELSE LET st == PlainText(text, n - 1)
             ch == text[n]
         IN  IF ch = "\\" THEN [st EXCEPT !.in_control = TRUE]
             ELSE IF ch \in {"{", "}"} THEN st
             ELSE IF st.in_control
             THEN [st EXCEPT !.in_control = (ch # " ")]
             ELSE [st EXCEPT !.result = Append(@, ch)]

\* C21: strip_rtf returns the plain text of the document, the text inside
\* its groups included.
C21_StripKeepsText ==
    rtf.done => rtf.output = PlainText(rtf.input, Len(rtf.input)).result

RECURSIVE SumScores(_, _)
SumScores(results, n) ==
    IF n = 0 THEN 0 ELSE SumScores(results, n - 1) + results[n].score

\* C22: the report of a successful evaluate has one result per registered
\* metric, in the order of registration, as many entries in metric_scores,
\* and the mean of the result scores as overall_score (0 without metrics).
C22_ReportPerMetric ==
    (evaluation.evaluated /\ evaluation.ok) =>
        LET report == evaluation.report
            n == metric_count(evaluation)
        IN  /\ Len(report.results) = n
            /\ \A i \in 1..n :
                  report.results[i].metric_name = evaluation.metrics[i].name
            /\ Cardinality(DOMAIN report.metric_scores) = n
            /\ IF n = 0
               THEN report.overall_score.num = 0
               ELSE report.overall_score.num * n =
                      SumScores(report.results, n) * report.overall_score.den

\* C23: a load_with_options of a file with max_size = m returns
\* FileTooLarge, and has not read the file, when the size of the file is
\* greater than m, and does not return FileTooLarge when the size is at most
\* m or no max_size is set.
C23_MaxSize ==
    (loader.name # "" /\ loader.path.exists) =>
        /\ (loader.max_size.some /\ loader.path.size > loader.max_size.value) =>
              (loader.outcome = "FileTooLarge" /\ ~loader.read)
        /\ (loader.max_size.some /\ loader.path.size <= loader.max_size.value) =>
              loader.outcome # "FileTooLarge"
        /\ ~loader.max_size.some => loader.outcome # "FileTooLarge"

C23_Witness ==
    /\ loader.name = "CodeLoader"
    /\ loader.path.exists
    /\ loader.max_size.some
    /\ loader.path.size = loader.max_size.value + 1
    /\ loader.outcome = "FileTooLarge"

AllWriters == UNION {server.locks[i].writers : i \in StoreRefs}

AllReaders == UNION {server.locks[i].readers : i \in StoreRefs}

\* C29: in single-tenant mode the two front-ends hold one and the same
\* store, and over both front-ends there is at any moment at most one
\* writer, and no reader beside a writer.
C29_OneStoreOneLock ==
    (server.pc # "start" /\ ~server.args.namespaces) =>
        /\ \A fe1, fe2 \in FrontEnds :
              (server.store_of[fe1] # NoStore /\ server.store_of[fe2] # NoStore) =>
                  server.store_of[fe1] = server.store_of[fe2]
        /\ Cardinality(AllWriters) <= 1
        /\ AllWriters # {} => AllReaders = {}

C29_Witness ==
    /\ ~server.args.namespaces
    /\ server.pc = "waiting"
    /\ \E r1, r2 \in AllReaders : r1[1] = "grpc" /\ r2[1] = "http"

\* C30: when a server task has ended with an error, main eventually
\* returns an error.
C30_TaskErrorReturned ==
    (\E fe \in FrontEnds : server.tasks[fe] = "err") ~> (server.pc = "err")

====
